---- MODULE Spec2Model ----
(***************************************************************************)
(* Model of the dim sum review service (src/app.py): one SQLite table      *)
(* `dim_sum` behind six Flask handlers.  The committed table is `store`.   *)
(*                                                                         *)
(* Spec handles one request at a time: every handler is one action, from   *)
(* the request to the HTTP response.  SpecConc lets requests overlap, as   *)
(* under the thread pool of src/run.py: there a handler takes one step a   *)
(* database round trip.                                                    *)
(*                                                                         *)
(* JSON and column values are tagged records, so that Python's None, ""    *)
(* and 0 stay different values with the same truthiness:                   *)
(*   Null, StrV(<<"A","b">>), IntV(3), BoolV(TRUE), DateV(2024, 2, 29).    *)
(* A string is the sequence of its characters.  Request bodies are JSON    *)
(* objects whose values have the type of their column, or are null.        *)
(* An exception that no handler catches ends its request with HTTP 500,    *)
(* and the session of the request is discarded with what it had not        *)
(* committed.                                                              *)
(***************************************************************************)
EXTENDS Integers, Sequences, FiniteSets, TLC

VARIABLES
    store,      \* the committed rows of table dim_sum (a set of rows)
    clock,      \* datetime.utcnow, as a logical timestamp
    issued,     \* history: the ids assigned by the successful creates, in order
    response,   \* the last HTTP response sent, with the request it answers
    threads,    \* the request each thread of the pool is serving (SpecConc)
    seen        \* history: the table states that existed while the GET
                \* /api/stats answered last ran (SpecConc)

vars == <<store, clock, issued, response, threads, seen>>

\* Successful creates explored (each takes one tick of the clock).
MaxCreates == 2

\* Item ids that requests address: those the creates can assign, and one more.
ItemIds == 1..(MaxCreates + 1)

\* Threads of the pool explored, that is requests that overlap (waitress
\* starts four).
MaxThreads == 2

Threads == 1..MaxThreads

\* Successful creates explored under overlapping requests, and the item ids
\* addressed there.
MaxConcCreates == 1

ConcItemIds == 1..(MaxConcCreates + 1)

-----------------------------------------------------------------------------
\* Values

Null == [t |-> "null"]
StrV(s) == [t |-> "str", v |-> s]
IntV(n) == [t |-> "int", v |-> n]
BoolV(b) == [t |-> "bool", v |-> b]
DateV(y, m, d) == [t |-> "date", v |-> <<y, m, d>>]

\* Python truthiness of a JSON / column value: `if x:`.
Truthy(x) ==
    CASE x.t = "null" -> FALSE
      [] x.t = "str"  -> x.v # <<>>
      [] x.t = "int"  -> x.v # 0
      [] x.t = "bool" -> x.v
      [] OTHER        -> TRUE

\* dict.get(key, default) on the request's JSON object.
Get(data, key, default) ==
    IF key \in DOMAIN data THEN data[key] ELSE default

-----------------------------------------------------------------------------
\* datetime.fromisoformat(s).date() and date.isoformat(), as CPython 3.11
\* and later parse (3.10 and earlier take only YYYY-MM-DD[*HH[:MM[:SS[.f]]]]
\* with an optional +HH:MM offset).  The operators follow the C functions of
\* Modules/_datetimemodule.c that fromisoformat calls; positions count from
\* 1, and reading past the end of a string yields NUL, its terminator.

DigitChars == <<"0", "1", "2", "3", "4", "5", "6", "7", "8", "9">>

IsDigit(c) == \E i \in 1..10 : DigitChars[i] = c

DigitVal(c) == (CHOOSE i \in 1..10 : DigitChars[i] = c) - 1

RECURSIVE Number(_)
Number(cs) ==
    IF cs = <<>> THEN 0
    ELSE 10 * Number(SubSeq(cs, 1, Len(cs) - 1)) + DigitVal(cs[Len(cs)])

AllDigits(cs) == \A i \in 1..Len(cs) : IsDigit(cs[i])

NUL == ""

At(cs, p) == IF p \in 1..Len(cs) THEN cs[p] ELSE NUL

\* parse_digits: the n characters from position p are digits.
DigitsAt(cs, p, n) == \A i \in 0..(n - 1) : IsDigit(At(cs, p + i))

NumberAt(cs, p, n) == Number(SubSeq(cs, p, p + n - 1))

Min(a, b) == IF a <= b THEN a ELSE b

\* The first position from p on that holds no digit.
SkipDigits(cs, p) ==
    CHOOSE q \in p..(Len(cs) + 1) :
        /\ ~IsDigit(At(cs, q))
        /\ \A j \in p..(q - 1) : IsDigit(cs[j])

IsLeap(y) == (y % 4 = 0) /\ ((y % 100 # 0) \/ (y % 400 = 0))

DaysInMonth(y, m) ==
    IF m = 2 THEN (IF IsLeap(y) THEN 29 ELSE 28)
    ELSE IF m \in {4, 6, 9, 11} THEN 30 ELSE 31

\* The range check of the datetime constructor on year, month and day.
ValidDate(ymd) ==
    /\ ymd[1] \in 1..9999
    /\ ymd[2] \in 1..12
    /\ ymd[3] \in 1..DaysInMonth(ymd[1], ymd[2])

\* days_before_year, days_before_month, ymd_to_ord: the proleptic Gregorian
\* ordinal of a day, 1 for 0001-01-01.
DaysBeforeYear(y) ==
    (y - 1) * 365 + ((y - 1) \div 4) - ((y - 1) \div 100) + ((y - 1) \div 400)

DaysBeforeMonth(y, m) ==
    <<0, 31, 59, 90, 120, 151, 181, 212, 243, 273, 304, 334>>[m]
    + (IF m > 2 /\ IsLeap(y) THEN 1 ELSE 0)

YmdToOrd(y, m, d) == DaysBeforeYear(y) + DaysBeforeMonth(y, m) + d

\* ord_to_ymd for an ordinal in the year before, of or after `near`; <<>>
\* when its year is outside 1..9999, which the constructor refuses.
OrdToYmd(n, near) ==
    LET years == {y \in {near - 1, near, near + 1} \cap 1..9999 :
                     DaysBeforeYear(y) < n /\ n <= DaysBeforeYear(y + 1)}
    IN IF years = {} THEN <<>>
       ELSE LET y == CHOOSE x \in years : TRUE
                m == CHOOSE x \in 1..12 :
                        /\ YmdToOrd(y, x, 1) <= n
                        /\ n <= YmdToOrd(y, x, DaysInMonth(y, x))
            IN <<y, m, n - YmdToOrd(y, m, 1) + 1>>

\* weekday: 0 is Monday.
Weekday(y, m, d) == (YmdToOrd(y, m, d) + 6) % 7

\* iso_week1_monday: the ordinal of the Monday that starts ISO week 1.
IsoWeek1Monday(y) ==
    LET first_day == YmdToOrd(y, 1, 1)
        first_weekday == (first_day + 6) % 7
        week1_monday == first_day - first_weekday
    IN IF first_weekday > 3 THEN week1_monday + 7 ELSE week1_monday

\* iso_to_ymd: the calendar day of an ISO year, week and weekday; <<>> when
\* it raises.  Week 53 exists in the years that start on a Thursday, and in
\* the leap years that start on a Wednesday.
IsoToYmd(iso_year, iso_week, iso_day) ==
    LET first_weekday == Weekday(iso_year, 1, 1)
        long_year == first_weekday = 3 \/ (first_weekday = 2 /\ IsLeap(iso_year))
    IN IF iso_year \notin 1..9999 THEN <<>>
       ELSE IF iso_week \notin 1..52 /\ ~(iso_week = 53 /\ long_year) THEN <<>>
       ELSE IF iso_day \notin 1..7 THEN <<>>
       ELSE OrdToYmd(IsoWeek1Monday(iso_year) + (iso_week - 1) * 7 + iso_day - 1,
                     iso_year)

\* parse_isoformat_date on a date part, then the constructor's range check:
\* <<year, month, day>>, or <<>> when either raises.  The date part reads
\* YYYY-MM-DD, YYYYMMDD, YYYY-Www, YYYYWww, YYYY-Www-D or YYYYWwwD.
ParseIsoformatDate(cs) ==
    IF ~DigitsAt(cs, 1, 4) THEN <<>>
    ELSE
      LET year == NumberAt(cs, 1, 4)
          uses_separator == At(cs, 5) = "-"
          p == IF uses_separator THEN 6 ELSE 5
      IN IF At(cs, p) = "W"
         THEN IF ~DigitsAt(cs, p + 1, 2) THEN <<>>
              ELSE IF p + 2 < Len(cs)
              THEN IF uses_separator /\ At(cs, p + 3) # "-" THEN <<>>
                   ELSE LET q == IF uses_separator THEN p + 4 ELSE p + 3 IN
                        IF ~DigitsAt(cs, q, 1) THEN <<>>
                        ELSE IsoToYmd(year, NumberAt(cs, p + 1, 2),
                                      NumberAt(cs, q, 1))
              ELSE IsoToYmd(year, NumberAt(cs, p + 1, 2), 1)
         ELSE IF ~DigitsAt(cs, p, 2) THEN <<>>
              ELSE IF uses_separator /\ At(cs, p + 2) # "-" THEN <<>>
              ELSE LET q == IF uses_separator THEN p + 3 ELSE p + 2 IN
                   IF ~DigitsAt(cs, q, 2) THEN <<>>
                   ELSE LET ymd == <<year, NumberAt(cs, p, 2), NumberAt(cs, q, 2)>>
                        IN IF ValidDate(ymd) THEN ymd ELSE <<>>

\* The date part names a day of the calendar.
IsIsoDate(cs) == ParseIsoformatDate(cs) # <<>>

\* parse_hh_mm_ss_ff, after its loop: up to six digits of a fraction are
\* read, further digits skipped.  1 when characters are left, 0 when none
\* are, -3 when a digit is missing.
Fraction(ts, p, p_end) ==
    LET to_parse == Min(6, p_end - p) IN
    IF ~DigitsAt(ts, p, to_parse) THEN -3
    ELSE IF At(ts, SkipDigits(ts, p + to_parse)) # NUL THEN 1 ELSE 0

\* parse_hh_mm_ss_ff on the characters of ts from p up to p_end, from field
\* i (0 the hour) on: HH[:MM[:SS]] or HH[MM[SS]], then a fraction after "."
\* or ",".  rv is the return code (0 parsed to the end of the string, 1
\* characters are left, negative malformed), vals the hour, minute, second.
RECURSIVE ParseHhMmSsFf(_, _, _, _, _, _)
ParseHhMmSsFf(ts, p, p_end, i, separator, vals) ==
    IF i = 3 THEN [rv |-> Fraction(ts, p, p_end), vals |-> vals]
    ELSE IF ~DigitsAt(ts, p, 2) THEN [rv |-> -3, vals |-> vals]
    ELSE
      LET c == At(ts, p + 2)
          has_separator == IF i = 0 THEN c = ":" ELSE separator
          vals1 == [vals EXCEPT ![i + 1] = NumberAt(ts, p, 2)]
      IN IF p + 3 >= p_end
         THEN [rv |-> IF c # NUL THEN 1 ELSE 0, vals |-> vals1]
         ELSE IF has_separator /\ c = ":"
         THEN ParseHhMmSsFf(ts, p + 3, p_end, i + 1, has_separator, vals1)
         ELSE IF c \in {".", ","}
         THEN [rv |-> Fraction(ts, p + 3, p_end), vals |-> vals1]
         ELSE IF ~has_separator
         THEN ParseHhMmSsFf(ts, p + 2, p_end, i + 1, has_separator, vals1)
         ELSE [rv |-> -4, vals |-> vals1]

\* The position of the first "Z", "+" or "-" of ts, past its end without one.
TzinfoPos(ts) ==
    CHOOSE q \in 1..(Len(ts) + 1) :
        /\ q <= Len(ts) => ts[q] \in {"Z", "+", "-"}
        /\ \A j \in 1..(q - 1) : ts[j] \notin {"Z", "+", "-"}

\* parse_isoformat_time on a time part, then the range checks of the
\* datetime and timezone constructors: a time of day with an optional "Z" or
\* UTC offset of less than 24 hours.
IsIsoTime(ts) ==
    /\ ts # <<>>
    /\ LET tzinfo_pos == TzinfoPos(ts)
           p_end == Len(ts) + 1
           t == ParseHhMmSsFf(ts, 1, tzinfo_pos, 0, TRUE, <<0, 0, 0>>)
       IN /\ t.rv >= 0
          /\ t.vals[1] \in 0..23 /\ t.vals[2] \in 0..59 /\ t.vals[3] \in 0..59
          /\ IF tzinfo_pos = p_end THEN t.rv = 0
             ELSE IF ts[tzinfo_pos] = "Z" THEN At(ts, tzinfo_pos + 1) = NUL
             ELSE LET o == ParseHhMmSsFf(ts, tzinfo_pos + 1, p_end, 0, TRUE,
                                         <<0, 0, 0>>)
                  IN /\ o.rv = 0
                     /\ o.vals[1] * 3600 + o.vals[2] * 60 + o.vals[3] < 86400

\* _find_isoformat_datetime_separator: the length of the date part, told
\* from the fifth and sixth characters; -1 when it raises.
FindIsoformatDatetimeSeparator(cs) ==
    IF Len(cs) = 7 THEN 7
    ELSE IF At(cs, 5) = "-"
    THEN IF At(cs, 6) = "W"
         THEN IF Len(cs) < 8 THEN -1
              ELSE IF Len(cs) > 8 /\ At(cs, 9) = "-"
              THEN IF Len(cs) = 9 THEN -1
                   ELSE IF Len(cs) > 10 /\ IsDigit(At(cs, 11)) THEN 8
                   ELSE 10
              ELSE 8
         ELSE 10
    ELSE IF At(cs, 5) = "W"
    THEN LET idx == SkipDigits(cs, 8) - 1 IN
         IF idx < 9 THEN idx
         ELSE IF idx % 2 = 0 THEN 7
         ELSE 8
    ELSE 8

\* The date part of a string: what comes before the separator.
DatePart(cs) ==
    SubSeq(cs, 1, Min(FindIsoformatDatetimeSeparator(cs), Len(cs)))

\* The strings datetime.fromisoformat accepts: a date, or a date, any one
\* separator character and a time.
IsIsoFormat(cs) ==
    /\ Len(cs) >= 7
    /\ FindIsoformatDatetimeSeparator(cs) >= 0
    /\ IsIsoDate(DatePart(cs))
    /\ Len(cs) > FindIsoformatDatetimeSeparator(cs) =>
           IsIsoTime(SubSeq(cs, FindIsoformatDatetimeSeparator(cs) + 2, Len(cs)))

\* datetime.fromisoformat(s).date(): the time of day is dropped.
FromIsoFormatDate(cs) ==
    LET ymd == ParseIsoformatDate(DatePart(cs)) IN DateV(ymd[1], ymd[2], ymd[3])

Fmt2(n) == <<DigitChars[(n \div 10) + 1], DigitChars[(n % 10) + 1]>>

Fmt4(n) == Fmt2(n \div 100) \o Fmt2(n % 100)

\* date.isoformat()
IsoFormat(d) == Fmt4(d.v[1]) \o <<"-">> \o Fmt2(d.v[2]) \o <<"-">> \o Fmt2(d.v[3])

-----------------------------------------------------------------------------
\* ilike: SQLAlchemy renders it for SQLite as lower(col) LIKE lower(pattern)

Capitals ==
    <<"A", "B", "C", "D", "E", "F", "G", "H", "I", "J", "K", "L", "M",
      "N", "O", "P", "Q", "R", "S", "T", "U", "V", "W", "X", "Y", "Z">>

Smalls ==
    <<"a", "b", "c", "d", "e", "f", "g", "h", "i", "j", "k", "l", "m",
      "n", "o", "p", "q", "r", "s", "t", "u", "v", "w", "x", "y", "z">>

\* SQLite's lower() folds the 26 ASCII capitals and no other character.
Lower(c) ==
    IF \E i \in 1..26 : Capitals[i] = c
    THEN Smalls[CHOOSE i \in 1..26 : Capitals[i] = c]
    ELSE c

\* SQLite's LIKE, no ESCAPE: % matches any run of characters, _ any one.
RECURSIVE Like(_, _)
Like(s, pat) ==
    IF pat = <<>> THEN s = <<>>
    ELSE IF Head(pat) = "%"
         THEN Like(s, Tail(pat)) \/ (s # <<>> /\ Like(Tail(s), pat))
    ELSE IF s = <<>> THEN FALSE
    ELSE IF Head(pat) = "_" THEN Like(Tail(s), Tail(pat))
    ELSE Lower(Head(s)) = Lower(Head(pat)) /\ Like(Tail(s), Tail(pat))

\* column.ilike(f'%{search}%'); a NULL column yields NULL, which filters out.
ILike(col, search) ==
    col.t = "str" /\ Like(col.v, <<"%">> \o search \o <<"%">>)

-----------------------------------------------------------------------------
\* The table (class DimSum) and what an INSERT or UPDATE of a row does

Columns ==
    {"restaurant_name", "dish_name", "dish_type", "rating", "price", "notes",
     "visit_date", "location", "would_order_again"}

Ids(tbl) == {r.id : r \in tbl}

Max(S) == CHOOSE x \in S : \A y \in S : y <= x

\* Mutant of NewRowid: the largest rowid, without the one added.
NewRowidNoIncrement(tbl) == IF tbl = {} THEN 1 ELSE Max(Ids(tbl))

\* id INTEGER PRIMARY KEY without AUTOINCREMENT: SQLite gives a new row the
\* largest rowid in the table plus one, and 1 in an empty table.
NewRowid(tbl) == IF tbl = {} THEN 1 ELSE Max(Ids(tbl)) + 1

\* Mutant of NotNullViolated: nullable=False left off restaurant_name.
NotNullOnlyDish(item) == item.dish_name = Null

\* nullable=False on restaurant_name and dish_name: the statement fails with
\* an IntegrityError when either is NULL.
NotNullViolated(item) ==
    item.restaurant_name = Null \/ item.dish_name = Null

\* The ORM leaves a None attribute out of the INSERT, so a column with a
\* default takes the default: would_order_again True, created_at utcnow().
InsertRow(item, tbl, now) ==
    [item EXCEPT
        !.id = NewRowid(tbl),
        !.would_order_again =
            IF item.would_order_again = Null THEN BoolV(TRUE)
            ELSE item.would_order_again,
        !.created_at = now]

\* DimSum.to_dict (created_at stays the logical timestamp).
ToDict(row) ==
    [row EXCEPT
        !.visit_date =
            IF Truthy(row.visit_date) THEN StrV(IsoFormat(row.visit_date))
            ELSE Null]

\* Query.get_or_404: the row of that id, when there is one.
Found(item_id, tbl) == \E r \in tbl : r.id = item_id

RowOf(item_id, tbl) == CHOOSE r \in tbl : r.id = item_id

NoItem == [id |-> 0]

\* The outcome of `if data.get('visit_date'): ... fromisoformat(...).date()`:
\* "skip" when the value is missing or falsy, "error" when fromisoformat
\* raises (ValueError on a malformed string, TypeError on a non-string).
VisitDate(data) ==
    LET v == Get(data, "visit_date", Null) IN
    IF ~Truthy(v) THEN [kind |-> "skip", date |-> Null]
    ELSE IF v.t = "str" /\ IsIsoFormat(v.v)
         THEN [kind |-> "date", date |-> FromIsoFormatDate(v.v)]
    ELSE [kind |-> "error", date |-> Null]

-----------------------------------------------------------------------------
\* The handlers' computations

\* create_dimsum up to the commit: the status and the row to insert.
\* An exception that no handler catches ends the request with 500.
CreateOutcome(data, tbl, now) ==
    LET vd == VisitDate(data) IN
    IF vd.kind = "error" THEN [status |-> 500, row |-> NoItem]
    ELSE IF ~({"restaurant_name", "dish_name"} \subseteq DOMAIN data)
         THEN [status |-> 500, row |-> NoItem]      \* KeyError
    ELSE
      LET item == [id |-> 0,
                   restaurant_name |-> data["restaurant_name"],
                   dish_name |-> data["dish_name"],
                   dish_type |-> Get(data, "dish_type", Null),
                   rating |-> Get(data, "rating", IntV(0)),
                   price |-> Get(data, "price", Null),
                   notes |-> Get(data, "notes", Null),
                   visit_date |-> vd.date,
                   location |-> Get(data, "location", Null),
                   would_order_again |-> Get(data, "would_order_again", BoolV(TRUE)),
                   created_at |-> 0]
      IN IF NotNullViolated(item)
         THEN [status |-> 500, row |-> NoItem]      \* IntegrityError
         ELSE [status |-> 201, row |-> InsertRow(item, tbl, now)]

\* update_dimsum, lines 103-110: the attributes of the loaded item after the
\* eight assignments.
Assign(item, data) ==
    [item EXCEPT
        !.restaurant_name = Get(data, "restaurant_name", item.restaurant_name),
        !.dish_name = Get(data, "dish_name", item.dish_name),
        !.dish_type = Get(data, "dish_type", item.dish_type),
        !.rating = Get(data, "rating", item.rating),
        !.price = Get(data, "price", item.price),
        !.notes = Get(data, "notes", item.notes),
        !.location = Get(data, "location", item.location),
        !.would_order_again = Get(data, "would_order_again", item.would_order_again)]

\* update_dimsum, lines 103-113, on the loaded item: the status so far and
\* the item as the session holds it.
UpdateOutcome(item, data) ==
    LET vd == VisitDate(data)
        a  == Assign(item, data)
    IN IF vd.kind = "error" THEN [status |-> 500, row |-> NoItem]
       ELSE [status |-> 200,
             row |-> IF vd.kind = "date" THEN [a EXCEPT !.visit_date = vd.date]
                     ELSE a]

\* The filter of get_dimsum.
Matches(row, search) ==
    \/ ILike(row.restaurant_name, search)
    \/ ILike(row.dish_name, search)
    \/ ILike(row.dish_type, search)

Selected(tbl, search) ==
    IF search # <<>> THEN {r \in tbl : Matches(r, search)} ELSE tbl

\* order_by(created_at.desc()): the orders of the rows it allows.
Orderings(rows) ==
    {q \in [1..Cardinality(rows) -> rows] :
        /\ \A i, j \in DOMAIN q : i # j => q[i] # q[j]
        /\ \A i, j \in DOMAIN q : i < j => q[i].created_at >= q[j].created_at}

RECURSIVE SumOf(_)
SumOf(S) ==
    IF S = {} THEN 0
    ELSE LET x == CHOOSE y \in S : TRUE IN x[2] + SumOf(S \ {x})

\* The binary exponent of the positive quotient a / n: the k with
\* 2^k <= a / n < 2^(k+1).
RECURSIVE Exponent(_, _)
Exponent(a, n) ==
    IF a >= 2 * n THEN 1 + Exponent(a, 2 * n)
    ELSE IF a >= n THEN 0
    ELSE Exponent(2 * a, n) - 1

\* 2^e modulo n.
RECURSIVE PowMod(_, _)
PowMod(e, n) == IF e = 0 THEN 1 % n ELSE (2 * PowMod(e - 1, n)) % n

\* The double that avg() returns for the positive quotient a / n is a / n
\* rounded to 53 significant bits: -1 when that double is below a / n, 1 when
\* it is above, 0 when it is a / n itself.  The bits cut off are the
\* remainder of a * 2^(52 - Exponent(a, n)) by n.
DoubleError(a, n) ==
    LET rest == ((a % n) * PowMod(52 - Exponent(a, n), n)) % n IN
    IF rest = 0 THEN 0 ELSE IF 2 * rest < n THEN -1 ELSE 1

\* round(x, 2) of the double x that avg() returns for the sum s of n
\* integers, in hundredths.  round() goes to the hundredth nearest to the
\* value the double holds: when s / n lies halfway between two hundredths,
\* that is the upper one when the double is above s / n (1/40 gives 0.03),
\* the lower one when it is below (3/40 gives 0.07), and the even one when
\* the double is s / n itself (1/8 gives 0.12, 3/8 gives 0.38).
Round2(s, n) ==
    LET a == IF s >= 0 THEN s ELSE -s
        q == (100 * a) \div n
        rest == (100 * a) % n
        m == IF 2 * rest < n THEN q
             ELSE IF 2 * rest > n THEN q + 1
             ELSE IF DoubleError(a, n) = 0 THEN (IF q % 2 = 0 THEN q ELSE q + 1)
             ELSE IF DoubleError(a, n) < 0 THEN q
             ELSE q + 1
    IN IF s >= 0 THEN m ELSE -m

\* round(avg(column) or 0, 2), in hundredths: avg skips the NULLs and is NULL
\* over no values.
Average(tbl, col) ==
    LET vals == {<<r.id, r[col].v>> : r \in {x \in tbl : x[col] # Null}} IN
    IF vals = {} THEN 0
    ELSE Round2(SumOf(vals), Cardinality(vals))

\* Mutant of GroupCount: the count taken over the table, not over the group.
GroupCountUngrouped(tbl, col) ==
    {<<k, Cardinality(tbl)>> : k \in {r[col] : r \in tbl}}

\* query(column, count(id)).group_by(column).all(): one row a distinct value,
\* NULL being one of them.
GroupCount(tbl, col) ==
    {<<k, Cardinality({r \in tbl : r[col] = k})>> : k \in {r[col] : r \in tbl}}

\* filter_by(would_order_again=b).count()
CountFlag(tbl, b) == Cardinality({r \in tbl : r.would_order_again = BoolV(b)})

\* [... for r in restaurants if r[0]]
Listed(groups) == {g \in groups : Truthy(g[1])}

\* The body get_stats answers over one state of the table.
StatsOf(tbl) ==
    [total_items |-> Cardinality(tbl),
     average_rating |-> Average(tbl, "rating"),
     average_price |-> Average(tbl, "price"),
     winners |-> CountFlag(tbl, TRUE),
     losers |-> CountFlag(tbl, FALSE),
     restaurants |-> Listed(GroupCount(tbl, "restaurant_name")),
     dish_types |-> Listed(GroupCount(tbl, "dish_type"))]

-----------------------------------------------------------------------------
\* The requests explored

Ab == <<"A", "b">>
Bd == <<"B", "d">>
LeapDay == <<"2", "0", "2", "4", "-", "0", "2", "-", "2", "9">>
\* Noon of the same day, as an ISO week date and a UTC time of day.
LeapDayNoon ==
    <<"2", "0", "2", "4", "-", "W", "0", "9", "-", "4", "T", "1", "2", ":",
      "0", "0", "Z">>
NoLeapDay == <<"2", "0", "2", "3", "-", "0", "2", "-", "2", "9">>

Minimal ==
    ("restaurant_name" :> StrV(Ab)) @@ ("dish_name" :> StrV(<<"b">>))

Full ==
    ("restaurant_name" :> StrV(Bd)) @@ ("dish_name" :> StrV(<<"b">>))
    @@ ("dish_type" :> StrV(Ab)) @@ ("rating" :> IntV(3)) @@ ("price" :> IntV(2))
    @@ ("notes" :> StrV(<<"d">>)) @@ ("visit_date" :> StrV(LeapDayNoon))
    @@ ("location" :> StrV(<<"d">>)) @@ ("would_order_again" :> BoolV(FALSE))

NoDish == ("restaurant_name" :> StrV(Ab))

NoRestaurant == ("dish_name" :> StrV(<<"b">>))

Empty ==
    ("restaurant_name" :> StrV(<<>>)) @@ ("dish_name" :> StrV(<<>>))
    @@ ("dish_type" :> StrV(<<>>))

NullName == ("restaurant_name" :> Null) @@ ("dish_name" :> StrV(<<"b">>))

BadDate == Minimal @@ ("visit_date" :> StrV(NoLeapDay))

NumberDate == Minimal @@ ("visit_date" :> IntV(20240229))

NullFlag ==
    Minimal @@ ("would_order_again" :> Null) @@ ("visit_date" :> StrV(<<>>))

CreateInputs ==
    {Minimal, Full, NoDish, NoRestaurant, Empty, NullName, BadDate, NumberDate,
     NullFlag}

Rate ==
    ("rating" :> IntV(5)) @@ ("visit_date" :> StrV(LeapDay))
    @@ ("id" :> IntV(9)) @@ ("created_at" :> IntV(9))

Clear == ("would_order_again" :> Null) @@ ("visit_date" :> Null)

RateBadDate == ("rating" :> IntV(4)) @@ ("visit_date" :> StrV(NoLeapDay))

NullRestaurant == ("restaurant_name" :> Null)

UpdateInputs == {Rate, Clear, RateBadDate, NullRestaurant}

Searches == {<<>>, <<"a", "B">>, <<"d">>, <<"_">>, <<"%">>, <<"b", "a">>}

-----------------------------------------------------------------------------
\* State

NoData == Null

\* A thread of the pool: idle, or the request it serves.  pc is the step the
\* request has reached; a PUT or DELETE holds the id it addresses and a PUT
\* the item it loaded, a POST holds the id of the row it inserted, and a GET
\* /api/stats holds the answers of the queries it has run, and (history) the
\* states of the table that existed since it arrived.
Idle ==
    [op |-> "idle", pc |-> 0, id |-> 0, data |-> NoData, item |-> NoItem,
     body |-> StatsOf({}), seen |-> {}]

Response(op, item_id, data, search, status, body) ==
    [op |-> op, id |-> item_id, data |-> data, search |-> search,
     status |-> status, body |-> body]

Init ==
    /\ store = {}
    /\ clock = 1
    /\ issued = <<>>
    /\ response = Response("none", 0, NoData, <<>>, 0, NoItem)
    /\ threads = [t \in Threads |-> Idle]
    /\ seen = {}

\* The threads th, once the table tbl is committed: it is one more state
\* that existed while the GET /api/stats in flight ran.
Observe(th, tbl) ==
    [t \in Threads |->
        IF th[t].op = "stats" THEN [th[t] EXCEPT !.seen = @ \cup {tbl}]
        ELSE th[t]]

\* session.commit of a write: the table becomes tbl, the threads th.
Commit(tbl, th) ==
    /\ store' = tbl
    /\ threads' = Observe(th, tbl)

\* session.flush of the changed item: UPDATE dim_sum SET <the attributes that
\* were given another value> WHERE id = <the item's id>.
Flush(tbl, loaded, item) ==
    {IF r.id = loaded.id
     THEN [c \in DOMAIN r |-> IF item[c] # loaded[c] THEN item[c] ELSE r[c]]
     ELSE r : r \in tbl}

\* Mutant of DeleteRow: the DELETE is never committed.
DeleteRowUncommitted(tbl, item_id) == tbl

\* session.delete(item) and commit: DELETE FROM dim_sum WHERE id = <id>.
DeleteRow(tbl, item_id) == {r \in tbl : r.id # item_id}

-----------------------------------------------------------------------------
\* The handlers, one request at a time

\* GET /api/dimsum?search=
GetDimsum(search) ==
    /\ \E q \in Orderings(Selected(store, search)) :
          response' = Response("list", 0, NoData, search, 200,
                               [i \in DOMAIN q |-> ToDict(q[i])])
    /\ UNCHANGED <<store, clock, issued, threads, seen>>

\* GET /api/dimsum/<id>
GetDimsumItem(item_id) ==
    /\ response' =
          IF Found(item_id, store)
          THEN Response("get", item_id, NoData, <<>>, 200,
                        ToDict(RowOf(item_id, store)))
          ELSE Response("get", item_id, NoData, <<>>, 404, NoItem)
    /\ UNCHANGED <<store, clock, issued, threads, seen>>

\* POST /api/dimsum
CreateDimsum(data) ==
    LET out == CreateOutcome(data, store, clock) IN
    IF out.status = 201
    THEN /\ Len(issued) < MaxCreates
         /\ Commit(store \cup {out.row}, threads)
         /\ clock' = clock + 1
         /\ issued' = Append(issued, out.row.id)
         /\ response' = Response("create", 0, data, <<>>, 201, ToDict(out.row))
         /\ UNCHANGED seen
    ELSE /\ response' = Response("create", 0, data, <<>>, out.status, NoItem)
         /\ UNCHANGED <<store, clock, issued, threads, seen>>

\* PUT /api/dimsum/<id>
UpdateDimsum(item_id, data) ==
    IF ~Found(item_id, store)
    THEN /\ response' = Response("update", item_id, data, <<>>, 404, NoItem)
         /\ UNCHANGED <<store, clock, issued, threads, seen>>
    ELSE
      LET item == RowOf(item_id, store)
          out  == UpdateOutcome(item, data)
      IN IF out.status = 200 /\ ~NotNullViolated(out.row)
         THEN /\ Commit(Flush(store, item, out.row), threads)
              /\ response' = Response("update", item_id, data, <<>>, 200,
                                      ToDict(out.row))
              /\ UNCHANGED <<clock, issued, seen>>
         ELSE \* ValueError, TypeError or IntegrityError: nothing is committed
              /\ response' = Response("update", item_id, data, <<>>, 500, NoItem)
              /\ UNCHANGED <<store, clock, issued, threads, seen>>

\* DELETE /api/dimsum/<id>
DeleteDimsum(item_id) ==
    IF ~Found(item_id, store)
    THEN /\ response' = Response("delete", item_id, NoData, <<>>, 404, NoItem)
         /\ UNCHANGED <<store, clock, issued, threads, seen>>
    ELSE /\ Commit(DeleteRow(store, item_id), threads)
         /\ response' = Response("delete", item_id, NoData, <<>>, 204, NoItem)
         /\ UNCHANGED <<clock, issued, seen>>

\* GET /api/stats
GetStats ==
    /\ response' = Response("stats", 0, NoData, <<>>, 200, StatsOf(store))
    /\ UNCHANGED <<store, clock, issued, threads, seen>>

Next ==
    \/ \E search \in Searches : GetDimsum(search)
    \/ \E item_id \in ItemIds : GetDimsumItem(item_id)
    \/ GetStats
    \/ \E data \in CreateInputs : CreateDimsum(data)
    \/ \E item_id \in ItemIds, data \in UpdateInputs : UpdateDimsum(item_id, data)
    \/ \E item_id \in ItemIds : DeleteDimsum(item_id)

Spec == Init /\ [][Next]_vars

-----------------------------------------------------------------------------
\* The handlers under concurrent requests: run.py serves the app from
\* waitress's pool of threads, each thread serving one request at a time, so
\* any requests may overlap, two of one kind included.  Every request has
\* its own session; pysqlite opens no transaction for a SELECT, so each query
\* of a handler reads the table as committed at that moment, and each commit
\* is one atomic write.  A handler takes one step a database round trip that
\* another request may come between.  (The two GET handlers of items run one
\* SELECT each and are left to Spec.)

StatsFields ==
    <<"total_items", "average_rating", "average_price", "restaurants",
      "dish_types", "winners", "losers">>

\* The thread t goes on to the request or the step r.
Serve(t, r) == [threads EXCEPT ![t] = r]

\* GET /api/stats arrives at the idle thread t.
StatsStart(t) ==
    /\ threads[t].op = "idle"
    /\ threads' = Serve(t, [Idle EXCEPT !.op = "stats", !.pc = 1,
                                        !.seen = {store}])
    /\ UNCHANGED <<store, clock, issued, response, seen>>

\* The next of the seven queries of get_stats, lines 131-146, in their order.
StatsQuery(t) ==
    /\ threads[t].op = "stats"
    /\ threads[t].pc \in DOMAIN StatsFields
    /\ LET f == StatsFields[threads[t].pc] IN
       threads' = Serve(t, [threads[t] EXCEPT
                               !.pc = @ + 1,
                               !.body = [@ EXCEPT ![f] = StatsOf(store)[f]]])
    /\ UNCHANGED <<store, clock, issued, response, seen>>

\* get_stats, lines 148-156.
StatsRespond(t) ==
    /\ threads[t].op = "stats"
    /\ threads[t].pc = Len(StatsFields) + 1
    /\ response' = Response("stats", 0, NoData, <<>>, 200, threads[t].body)
    /\ seen' = threads[t].seen
    /\ threads' = Serve(t, Idle)
    /\ UNCHANGED <<store, clock, issued>>

\* create_dimsum, lines 74-93, at the idle thread t: the INSERT and its
\* commit, or the exception that ends the request.
CrtCommit(t, data) ==
    /\ threads[t].op = "idle"
    /\ LET out == CreateOutcome(data, store, clock) IN
       IF out.status = 201
       THEN /\ Len(issued) < MaxConcCreates
            /\ Commit(store \cup {out.row},
                      Serve(t, [Idle EXCEPT !.op = "create", !.pc = 1,
                                            !.id = out.row.id, !.data = data]))
            /\ clock' = clock + 1
            /\ issued' = Append(issued, out.row.id)
            /\ UNCHANGED <<response, seen>>
       ELSE /\ response' = Response("create", 0, data, <<>>, out.status, NoItem)
            /\ UNCHANGED <<store, clock, issued, threads, seen>>

\* create_dimsum, line 95: the commit expired the item, so to_dict reloads
\* the row of its id, and raises ObjectDeletedError when the row is gone.
CrtRespond(t) ==
    /\ threads[t].op = "create"
    /\ response' =
          IF Found(threads[t].id, store)
          THEN Response("create", 0, threads[t].data, <<>>, 201,
                        ToDict(RowOf(threads[t].id, store)))
          ELSE Response("create", 0, threads[t].data, <<>>, 500, NoItem)
    /\ threads' = Serve(t, Idle)
    /\ UNCHANGED <<store, clock, issued, seen>>

\* update_dimsum, line 100, at the idle thread t.
UpdLoad(t, item_id, data) ==
    /\ threads[t].op = "idle"
    /\ IF Found(item_id, store)
       THEN /\ threads' = Serve(t, [Idle EXCEPT !.op = "update", !.pc = 1,
                                                !.id = item_id, !.data = data,
                                                !.item = RowOf(item_id, store)])
            /\ UNCHANGED response
       ELSE /\ response' = Response("update", item_id, data, <<>>, 404, NoItem)
            /\ UNCHANGED threads
    /\ UNCHANGED <<store, clock, issued, seen>>

\* update_dimsum, lines 101-115.  An item whose attributes all kept their
\* values needs no UPDATE; an UPDATE that matches no row raises
\* StaleDataError.
UpdCommit(t) ==
    /\ threads[t].op = "update"
    /\ threads[t].pc = 1
    /\ LET req == threads[t]
           out == UpdateOutcome(req.item, req.data)
       IN IF out.status = 200 /\ out.row = req.item
          THEN /\ threads' = Serve(t, [req EXCEPT !.pc = 2])
               /\ UNCHANGED <<store, response>>
          ELSE IF /\ out.status = 200
                  /\ Found(req.id, store)
                  /\ ~NotNullViolated(out.row)
          THEN /\ Commit(Flush(store, req.item, out.row),
                         Serve(t, [req EXCEPT !.pc = 2]))
               /\ UNCHANGED response
          ELSE /\ response' = Response("update", req.id, req.data, <<>>,
                                       500, NoItem)
               /\ threads' = Serve(t, Idle)
               /\ UNCHANGED store
    /\ UNCHANGED <<clock, issued, seen>>

\* update_dimsum, line 117: the commit expired the item, so to_dict reloads
\* its row, and raises ObjectDeletedError when the row is gone.
UpdRespond(t) ==
    /\ threads[t].op = "update"
    /\ threads[t].pc = 2
    /\ response' =
          IF Found(threads[t].id, store)
          THEN Response("update", threads[t].id, threads[t].data, <<>>, 200,
                        ToDict(RowOf(threads[t].id, store)))
          ELSE Response("update", threads[t].id, threads[t].data, <<>>, 500,
                        NoItem)
    /\ threads' = Serve(t, Idle)
    /\ UNCHANGED <<store, clock, issued, seen>>

\* delete_dimsum, line 122, at the idle thread t.
DelLoad(t, item_id) ==
    /\ threads[t].op = "idle"
    /\ IF Found(item_id, store)
       THEN /\ threads' = Serve(t, [Idle EXCEPT !.op = "delete", !.pc = 1,
                                                !.id = item_id])
            /\ UNCHANGED response
       ELSE /\ response' = Response("delete", item_id, NoData, <<>>, 404, NoItem)
            /\ UNCHANGED threads
    /\ UNCHANGED <<store, clock, issued, seen>>

\* delete_dimsum, lines 123-126.  A DELETE that matches no row only warns.
DelCommit(t) ==
    /\ threads[t].op = "delete"
    /\ Commit(DeleteRow(store, threads[t].id), Serve(t, Idle))
    /\ response' = Response("delete", threads[t].id, NoData, <<>>, 204, NoItem)
    /\ UNCHANGED <<clock, issued, seen>>

ConcCreateInputs == {Minimal}

ConcUpdateInputs == {Rate}

NextConc ==
    \/ \E t \in Threads, data \in ConcCreateInputs : CrtCommit(t, data)
    \/ \E t \in Threads : CrtRespond(t)
    \/ \E t \in Threads : StatsStart(t)
    \/ \E t \in Threads : StatsQuery(t)
    \/ \E t \in Threads : StatsRespond(t)
    \/ \E t \in Threads, item_id \in ConcItemIds, data \in ConcUpdateInputs :
          UpdLoad(t, item_id, data)
    \/ \E t \in Threads : UpdCommit(t)
    \/ \E t \in Threads : UpdRespond(t)
    \/ \E t \in Threads, item_id \in ConcItemIds : DelLoad(t, item_id)
    \/ \E t \in Threads : DelCommit(t)

SpecConc == Init /\ [][NextConc]_vars

-----------------------------------------------------------------------------
\* Properties

Range(q) == {q[i] : i \in DOMAIN q}

SameLetter(a, b) ==
    a = b \/ \E i \in 1..26 : {a, b} = {Capitals[i], Smalls[i]}

\* sub occurs in s, letter case aside.
Contains(s, sub) ==
    \E i \in 0..(Len(s) - Len(sub)) :
        \A j \in 1..Len(sub) : SameLetter(s[i + j], sub[j])

ContainsIn(col, sub) == col.t = "str" /\ Contains(col.v, sub)

MissingRequired(data) ==
    ~({"restaurant_name", "dish_name"} \subseteq DOMAIN data)

\* visit_date is supplied as a non-empty string that names no ISO-8601 date.
Malformed(data) ==
    /\ "visit_date" \in DOMAIN data
    /\ data["visit_date"].t = "str"
    /\ data["visit_date"].v # <<>>
    /\ ~IsIsoFormat(data["visit_date"].v)

Created == response.op = "create" /\ response.status = 201

\* C1: a create whose input lacks restaurant_name or dish_name answers 400
\* and leaves the stored records as they were.
C1_MissingFieldIsBadRequest ==
    [][(response'.op = "create" /\ MissingRequired(response'.data))
          => (response'.status = 400 /\ store' = store)]_vars

\* C2: a create, or an update of an existing record, whose visit_date is a
\* malformed date string answers 400 and leaves the stored records as they
\* were.
C2_MalformedDateIsBadRequest ==
    [][(/\ response'.op \in {"create", "update"}
        /\ response'.status # 404
        /\ Malformed(response'.data))
          => (response'.status = 400 /\ store' = store)]_vars

\* What a supplied value stores: a date string its date, any other value
\* itself.
Supplied(col, data) ==
    IF col = "visit_date" /\ VisitDate(data).kind = "date"
    THEN VisitDate(data).date
    ELSE data[col]

\* C3: a completed update of an existing record gives every column present
\* in the input the supplied value, keeps every absent column, id and
\* created_at, and leaves every other record as it was.
C3_UpdateWritesSuppliedFields ==
    [][(response'.op = "update" /\ response'.status = 200)
          => /\ Found(response'.id, store) /\ Found(response'.id, store')
             /\ LET old == RowOf(response'.id, store)
                    new == RowOf(response'.id, store')
                IN /\ \A c \in Columns :
                         new[c] = IF c \in DOMAIN response'.data
                                  THEN Supplied(c, response'.data)
                                  ELSE old[c]
                   /\ new.id = old.id
                   /\ new.created_at = old.created_at
                   /\ store' \ {new} = store \ {old}]_vars

UniqueIds == \A r1, r2 \in store : r1.id = r2.id => r1 = r2

\* C4 as claimed: stored ids are unique, and each create's id is greater
\* than the id of every earlier create, also of records since deleted.
C4_IdsNeverReassigned ==
    /\ UniqueIds
    /\ \A i, j \in DOMAIN issued : i < j => issued[i] < issued[j]

\* C4 as amended: stored ids are unique, and the id a successful create
\* assigns is greater than the id of every other record stored at that time.
C4_IdsUniqueAboveStored ==
    /\ UniqueIds
    /\ Created =>
          /\ response.body.id = issued[Len(issued)]
          /\ \E r \in store : r.id = response.body.id
          /\ \A r \in store : r.id <= response.body.id

\* A create succeeded while another record was stored.
C4_Witness ==
    /\ Created
    /\ Cardinality(store) = 2

\* C5 as claimed: the record a create stored has a non-empty restaurant_name
\* and a non-empty dish_name.
C5_CreatedNamesNonEmpty ==
    Created =>
       \A r \in store :
          r.id = response.body.id =>
             Truthy(r.restaurant_name) /\ Truthy(r.dish_name)

\* C5 as amended: every stored record has a restaurant_name and a dish_name
\* that are not null, and a create whose input gives either as null stores
\* no record.
C5_NamesNotNull ==
    /\ \A r \in store : r.restaurant_name # Null /\ r.dish_name # Null
    /\ (/\ response.op = "create"
        /\ ~MissingRequired(response.data)
        /\ Null \in {response.data["restaurant_name"], response.data["dish_name"]})
          => response.status # 201

\* A create with a null restaurant_name was refused.
C5_Witness ==
    /\ response.op = "create"
    /\ response.data = NullName
    /\ response.status = 500
    /\ store # {}

\* C6: a list with a non-empty search returns exactly the stored records one
\* of whose restaurant_name, dish_name and dish_type contains the search
\* text, letter case aside.
C6_SearchIsSubstringMatch ==
    (response.op = "list" /\ response.search # <<>>)
       => {response.body[i].id : i \in DOMAIN response.body}
            = {r.id : r \in {x \in store :
                                \/ ContainsIn(x.restaurant_name, response.search)
                                \/ ContainsIn(x.dish_name, response.search)
                                \/ ContainsIn(x.dish_type, response.search)}}

StatsCounts ==
    /\ response.body.total_items = Cardinality(store)
    /\ response.body.winners
          = Cardinality({r \in store : r.would_order_again = BoolV(TRUE)})
    /\ response.body.losers
          = Cardinality({r \in store : r.would_order_again = BoolV(FALSE)})

\* The breakdown `groups` has exactly one entry for each value of column col
\* outside `left_out`, with the number of records holding it.
Breakdown(groups, col, left_out) ==
    /\ \A g \in groups :
          /\ g[1] \notin left_out
          /\ g[2] = Cardinality({r \in store : r[col] = g[1]})
          /\ g[2] > 0
    /\ \A r \in store : r[col] \notin left_out => \E g \in groups : g[1] = r[col]
    /\ \A g, h \in groups : g[1] = h[1] => g = h

\* C7 as claimed: stats counts the records, the winners and the losers, lists
\* every distinct non-null restaurant_name and dish_type with its count, and
\* the restaurants counts sum to total_items.
C7_StatsGroupsNonNull ==
    response.op = "stats" =>
       /\ StatsCounts
       /\ Breakdown(response.body.restaurants, "restaurant_name", {Null})
       /\ Breakdown(response.body.dish_types, "dish_type", {Null})
       /\ SumOf(response.body.restaurants) = response.body.total_items

\* C7 as amended: the breakdowns list every distinct restaurant_name and
\* dish_type that is neither null nor the empty string, and the restaurants
\* counts sum to the number of records with a non-empty restaurant_name.
C7_StatsGroupsNonEmpty ==
    response.op = "stats" =>
       /\ StatsCounts
       /\ Breakdown(response.body.restaurants, "restaurant_name", {Null, StrV(<<>>)})
       /\ Breakdown(response.body.dish_types, "dish_type", {Null, StrV(<<>>)})
       /\ SumOf(response.body.restaurants)
             = Cardinality({r \in store : r.restaurant_name # StrV(<<>>)})

\* stats answered over two records, one of them with an empty
\* restaurant_name.
C7_Witness ==
    /\ response.op = "stats"
    /\ response.body.total_items = 2
    /\ \E r \in store : r.restaurant_name = StrV(<<>>)
    /\ Cardinality(response.body.restaurants) = 1

\* C8: a delete that succeeds removes that record and no other; a get of the
\* id issued next answers 404, and a list issued next does not hold the id.
C8_DeleteIsImmediate ==
    [][/\ (response'.op = "delete" /\ response'.status = 204)
            => /\ store' = {r \in store : r.id # response'.id}
               /\ ~Found(response'.id, store')
       /\ (/\ response.op = "delete" /\ response.status = 204
           /\ response'.op = "get" /\ response'.id = response.id)
            => response'.status = 404
       /\ (/\ response.op = "delete" /\ response.status = 204
           /\ response'.op = "list")
            => \A i \in DOMAIN response'.body :
                  response'.body[i].id # response.id]_vars

\* A get answered 404 for the id of a record that had been created and
\* deleted, with another record still stored.
C8_Witness ==
    /\ response.op = "get"
    /\ response.status = 404
    /\ response.id \in Range(issued)
    /\ store # {}

\* The answer of stats describes one state of the table, among those that
\* existed while the request ran.
StatsOverOneState ==
    response.op = "stats" => \E tbl \in seen : response.body = StatsOf(tbl)

\* An update ends as a completed update or as 404.
UpdateEndsUpdatedOrNotFound ==
    response.op = "update" => response.status \in {200, 404}

\* C9: under concurrent requests every handler acts as one read or one
\* write: stats answers over one state of the table, and an update that
\* interleaves with a delete of its record ends as a completed update or as
\* 404.
C9_HandlersAreAtomic ==
    StatsOverOneState /\ UpdateEndsUpdatedOrNotFound

\* C10: would_order_again of every stored record is true or false, and stats
\* answers winners + losers = total_items.
C10_FlagIsBoolean ==
    /\ \A r \in store : r.would_order_again \in {BoolV(TRUE), BoolV(FALSE)}
    /\ response.op = "stats" =>
          response.body.winners + response.body.losers = response.body.total_items

====
